---- MODULE Spec2Model ----
(***************************************************************************)
(* MaturaGrade: the Home page component (client/src/pages/home.tsx).       *)
(*                                                                         *)
(* The component's React state (text, isGrading, isWritingMode, result,    *)
(* copied), the callbacks the browser still owes it (the continuations of  *)
(* handleGrade suspended at its await, FileReader loads, the timers of     *)
(* handleShare) and the two collaborators it writes to (toast, clipboard). *)
(* One action per event handler; a control can fire when the JSX renders   *)
(* it and does not disable it.  The state updates a handler makes before   *)
(* it returns or suspends are one step: the event loop runs no other       *)
(* handler in between.                                                     *)
(***************************************************************************)
EXTENDS Integers, Sequences, FiniteSets, TLC

VARIABLES
    text,           \* useState("")            the essay, a sequence of characters
    isGrading,      \* useState(false)
    isWritingMode,  \* useState(false)
    result,         \* useState(null)          <<>> is null, <<r>> holds r
    copied,         \* useState(false)
    inflight,       \* handleGrade calls suspended at the await, oldest first:
                    \*   isWritingMode  the value the call read before suspending
                    \*   reset          history: handleReset has run since the call
    loads,          \* FileReader reads started by onDrop, onload still to come
    copyTimers,     \* pending setTimeout(() => setCopied(false), 2000)
    toastTitle,     \* title of the last toast shown
    clipboard       \* last string handed to navigator.clipboard.writeText

vars == <<text, isGrading, isWritingMode, result, copied,
          inflight, loads, copyTimers, toastTitle, clipboard>>

(***************************************************************************)
(* Bounds of the model.                                                    *)
(***************************************************************************)
MaxLen == 1
MaxInflight == 2
MaxLoads == 1
MaxTimers == 1
WordMaxLen == 4
MaxTotalInput == 50

(***************************************************************************)
(* Strings.  A text is a sequence of characters; "a" stands for any        *)
(* non-whitespace character, " " for a whitespace character.               *)
(***************************************************************************)
Whitespace == {" ", "\n"}
Chars == {"a", " "}

Texts == UNION {[1..n -> Chars] : n \in 0..MaxLen}

RECURSIVE TrimStart(_)
TrimStart(s) ==
    IF s # <<>> /\ Head(s) \in Whitespace THEN TrimStart(Tail(s)) ELSE s

RECURSIVE TrimEnd(_)
TrimEnd(s) ==
    IF s # <<>> /\ s[Len(s)] \in Whitespace
    THEN TrimEnd(SubSeq(s, 1, Len(s) - 1))
    ELSE s

\* the blank check without the trim: !text
Trim_Omitted(s) == s

\* String.prototype.trim
Trim(s) == TrimEnd(TrimStart(s))

(***************************************************************************)
(* The word count both views render:                                       *)
(*     text.split(/\s+/).filter(w => w.length > 0).length                  *)
(* split is String.prototype.split with a regular expression: q scans the  *)
(* string, a match of \s+ at q closes the piece begun at p, and the piece  *)
(* left at the end is added; the empty string gives one empty piece.       *)
(***************************************************************************)
\* a split at runs of spaces only, / +/: a newline does not separate words
RECURSIVE MatchEnd_SpacesOnly(_, _)
MatchEnd_SpacesOnly(S, q) ==
    IF q < Len(S) /\ S[q + 1] = " " THEN MatchEnd_SpacesOnly(S, q + 1) ELSE q

\* where the longest match of \s+ at index q (0-based) ends; q when none
RECURSIVE MatchEnd(_, _)
MatchEnd(S, q) ==
    IF q < Len(S) /\ S[q + 1] \in Whitespace THEN MatchEnd(S, q + 1) ELSE q

RECURSIVE SplitFrom(_, _, _, _)
SplitFrom(S, p, q, A) ==
    IF q >= Len(S) THEN Append(A, SubSeq(S, p + 1, Len(S)))
    ELSE LET e == MatchEnd(S, q) IN
         IF e = q THEN SplitFrom(S, p, q + 1, A)
         ELSE SplitFrom(S, e, e, Append(A, SubSeq(S, p + 1, q)))

Split(S) == IF Len(S) = 0 THEN <<S>> ELSE SplitFrom(S, 0, 0, <<>>)

NonEmptyPiece(w) == Len(w) > 0

\* the count without the filter of empty pieces
WordCount_NoFilter(t) == Len(Split(t))

WordCount(t) == Len(SelectSeq(Split(t), NonEmptyPiece))

\* JavaScript truthiness of a string: !s is true exactly for ""
Falsy(s) == s = <<>>

(***************************************************************************)
(* The rubric.                                                             *)
(***************************************************************************)
Kinds == {"formalRequirements", "literaryCompetencies", "structure",
          "coherence", "style", "language", "spelling", "punctuation"}

\* the kinds whose criterion carries an error tally, and the tally's field
ErrorField ==
    [literaryCompetencies |-> "factualErrors",
     coherence            |-> "coherenceErrors",
     language             |-> "languageErrors",
     spelling             |-> "spellingErrors",
     punctuation          |-> "punctuationErrors"]

\* maxScore of each rendered scale (the literary scale renders 17 boxes, 0..16)
LiteraryBoxes == 17
MaxScore ==
    [formalRequirements   |-> 1,
     literaryCompetencies |-> LiteraryBoxes - 1,
     structure            |-> 3,
     coherence            |-> 3,
     style                |-> 1,
     language             |-> 7,
     spelling             |-> 2,
     punctuation          |-> 2]

\* the object handleGrade passes to setResult once the simulated call returns
MockResult ==
    [totalScore    |-> 35,
     maxTotalScore |-> 50,
     criteria |->
        [formalRequirements   |->
            [points |-> 1,
             reasons |-> [cardinalError    |-> FALSE,
                          missingReading   |-> FALSE,
                          irrelevant       |-> FALSE,
                          notArgumentative |-> FALSE]],
         literaryCompetencies |-> [points |-> 11, factualErrors |-> 1],
         structure            |-> [points |-> 3],
         coherence            |-> [points |-> 2, coherenceErrors |-> 2],
         style                |-> [points |-> 1],
         language             |-> [points |-> 5, languageErrors |-> 4],
         spelling             |-> [points |-> 2, spellingErrors |-> 0],
         punctuation          |-> [points |-> 1, punctuationErrors |-> 3]],
     feedback    |-> "Dobra praca z kilkoma bledami stylistycznymi. ...",
     errors      |-> <<"Powtorzenie w akapicie 2: 'jest to'",
                       "Blad interpunkcyjny w zdaniu podrzednym",
                       "Zbyt potoczne sformulowanie: 'fajna sprawa'",
                       "Blad rzeczowy: Wokulski nie byl pozytywista ...">>,
     suggestions |-> <<"Rozbuduj wstep o kontekst historyczny",
                       "Uzyj bardziej zroznicowanego slownictwa (synonimy)",
                       "Dodaj cytat potwierdzajacy teze z 'Lalki'",
                       "Przecwicz stosowanie przecinkow przed spojnikami">>]

\* the same object with literary points one past the 0..16 scale
ScorerResponse_OffScale ==
    [MockResult EXCEPT !.criteria.literaryCompetencies.points = LiteraryBoxes]

\* what the simulated scorer call resolves handleGrade to
ScorerResponse == MockResult

\* useState<GradingResult | null>(null)
NoResult == <<>>
HasResult == result # NoResult
Res == result[1]

\* the boxes of one scale that ScoreBox renders as selected
SelectedBoxes(score, maxScore) == {i \in 0..maxScore : score = i}

(***************************************************************************)
(* The percentage of the result card:                                      *)
(*     Math.round((result.totalScore / result.maxTotalScore) * 100)        *)
(* JavaScript numbers are IEEE 754 doubles: the quotient is rounded to a   *)
(* significand of 53 bits (to nearest, ties to even), so is its product    *)
(* with 100, and Math.round takes the nearest integer, a half going up.    *)
(* A number is a pair <<bits, e>>: the integer written by bits (most       *)
(* significant first) times 2^e.                                           *)
(***************************************************************************)
Precision == 53

Front(b) == SubSeq(b, 1, Len(b) - 1)

\* the integer written by a short sequence of bits
RECURSIVE BitsValue(_)
BitsValue(b) == IF b = <<>> THEN 0 ELSE 2 * BitsValue(Front(b)) + b[Len(b)]

\* b + 1
RECURSIVE Inc(_)
Inc(b) ==
    IF b = <<>> THEN <<1>>
    ELSE IF b[Len(b)] = 0 THEN Append(Front(b), 1)
    ELSE Append(Inc(Front(b)), 0)

\* a + b + c, c a carry
RECURSIVE AddBits(_, _, _)
AddBits(a, b, c) ==
    IF a = <<>> /\ b = <<>> THEN (IF c = 1 THEN <<1>> ELSE <<>>)
    ELSE LET x == IF a = <<>> THEN 0 ELSE a[Len(a)]
             y == IF b = <<>> THEN 0 ELSE b[Len(b)]
             fa == IF a = <<>> THEN a ELSE Front(a)
             fb == IF b = <<>> THEN b ELSE Front(b)
             sum == x + y + c
         IN  IF sum >= 2 THEN Append(AddBits(fa, fb, 1), sum - 2)
             ELSE Append(AddBits(fa, fb, 0), sum)

\* b * n, exactly
RECURSIVE TimesBits(_, _)
TimesBits(b, n) ==
    IF n = 0 THEN <<>>
    ELSE LET twice == Append(TimesBits(b, n \div 2), 0)
         IN  IF n % 2 = 1 THEN AddBits(twice, b, 0) ELSE twice

\* bits without leading zeros
RECURSIVE Normal(_)
Normal(b) == IF b # <<>> /\ b[1] = 0 THEN Normal(Tail(b)) ELSE b

\* an exact number rounded to Precision bits, to nearest, ties to even
RoundToDouble(v) ==
    LET b == Normal(v[1])
        d == Len(b) - Precision
    IN  IF d <= 0 THEN <<b, v[2]>>
        ELSE LET kept  == SubSeq(b, 1, Precision)
                 rest  == SubSeq(b, Precision + 1, Len(b))
                 more  == \E i \in 2..Len(rest) : rest[i] = 1
                 up    == rest[1] = 1 /\ (more \/ kept[Precision] = 1)
             IN  <<IF up THEN Inc(kept) ELSE kept, v[2] + d>>

\* the first n bits of r / m for m <= r < 2m, by long division
RECURSIVE DivBits(_, _, _)
DivBits(r, m, n) ==
    IF n = 0 THEN <<>>
    ELSE IF r >= m THEN <<1>> \o DivBits(2 * (r - m), m, n - 1)
    ELSE <<0>> \o DivBits(2 * r, m, n - 1)

\* what that division leaves, in units of half the last bit, times m
RECURSIVE DivRest(_, _, _)
DivRest(r, m, n) ==
    IF n = 0 THEN r
    ELSE IF r >= m THEN DivRest(2 * (r - m), m, n - 1)
    ELSE DivRest(2 * r, m, n - 1)

\* the least k with t * 2^k >= m
RECURSIVE Shift(_, _)
Shift(t, m) == IF t >= m THEN 0 ELSE 1 + Shift(2 * t, m)

RECURSIVE Pow2(_)
Pow2(k) == IF k = 0 THEN 1 ELSE 2 * Pow2(k - 1)

\* the double t / m, for integers 0 < t <= m
Quotient(t, m) ==
    LET k    == Shift(t, m)
        r    == t * Pow2(k)
        bits == DivBits(r, m, Precision)
        rest == DivRest(r, m, Precision)
        up   == rest > m \/ (rest = m /\ bits[Precision] = 1)
    IN  <<IF up THEN Inc(bits) ELSE bits, 1 - Precision - k>>

\* the double x * n
Product(x, n) == RoundToDouble(<<TimesBits(x[1], n), x[2]>>)

\* Math.round of a double x >= 0 below 2^31: floor(x + 1/2)
MathRound(w) ==
    LET b == w[1]
        f == 0 - w[2]
    IN  IF f <= 0 THEN BitsValue(b) * Pow2(0 - f)
        ELSE IF f > Len(b) THEN 0
        ELSE BitsValue(SubSeq(b, 1, Len(b) - f)) + b[Len(b) - f + 1]

\* the number shown in text-percentage, for 0 <= t <= m and m > 0
Percentage(t, m) ==
    IF t = 0 THEN 0 ELSE MathRound(Product(Quotient(t, m), 100))

(***************************************************************************)
(* The share text of handleShare: a template string around the two         *)
(* numbers, each written in decimal.                                       *)
(***************************************************************************)
Digit(d) == CASE d = 0 -> "0" [] d = 1 -> "1" [] d = 2 -> "2" [] d = 3 -> "3"
              [] d = 4 -> "4" [] d = 5 -> "5" [] d = 6 -> "6" [] d = 7 -> "7"
              [] d = 8 -> "8" [] d = 9 -> "9"

RECURSIVE NumberToString(_)
NumberToString(n) ==
    IF n < 10 THEN <<Digit(n)>>
    ELSE Append(NumberToString(n \div 10), Digit(n % 10))

\* the template with the two numbers in each other's place
ShareText_Swapped(r) ==
    <<"Uzyskalem ">> \o NumberToString(r.maxTotalScore) \o <<"/">>
        \o NumberToString(r.totalScore)
        \o <<" punktow z mojej pracy maturalnej! Sprawdz swoja na MaturaGrader.">>

ShareText(r) ==
    <<"Uzyskalem ">> \o NumberToString(r.totalScore) \o <<"/">>
        \o NumberToString(r.maxTotalScore)
        \o <<" punktow z mojej pracy maturalnej! Sprawdz swoja na MaturaGrader.">>

NoClip == <<>>

(***************************************************************************)
(* Toast titles.                                                           *)
(***************************************************************************)
NoToast == "none"
ToastLoaded == "Dokument wczytany"
ToastEmpty == "Pusty dokument"
ToastCopied == "Skopiowano do schowka"
ToastUnavailable == "Funkcja niedostepna"

(***************************************************************************)
(* Initial state: the useState initialisers, nothing pending.              *)
(***************************************************************************)
Init ==
    /\ text = <<>>
    /\ isGrading = FALSE
    /\ isWritingMode = FALSE
    /\ result = NoResult
    /\ copied = FALSE
    /\ inflight = <<>>
    /\ loads = 0
    /\ copyTimers = 0
    /\ toastTitle = NoToast
    /\ clipboard = NoClip

(***************************************************************************)
(* File intake: onDrop starts a read of the accepted file, reader.onload   *)
(* delivers its content later; the component learns the content only then. *)
(* The dropzone is rendered only while text is falsy.                      *)
(***************************************************************************)
OnDrop ==
    /\ Falsy(text)
    /\ loads < MaxLoads
    /\ loads' = loads + 1
    /\ UNCHANGED <<text, isGrading, isWritingMode, result, copied,
                   inflight, copyTimers, toastTitle, clipboard>>

ReaderOnLoad(content) ==
    /\ loads > 0
    /\ text' = content
    /\ toastTitle' = ToastLoaded
    /\ loads' = loads - 1
    /\ UNCHANGED <<isGrading, isWritingMode, result, copied,
                   inflight, copyTimers, clipboard>>

(***************************************************************************)
(* Typing: the onChange of the two textareas is setText(e.target.value).   *)
(***************************************************************************)
TextareaOnChange(s) ==
    /\ s # text
    /\ text' = s
    /\ UNCHANGED <<isGrading, isWritingMode, result, copied,
                   inflight, loads, copyTimers, toastTitle, clipboard>>

\* the inline textarea is in the branch rendered when text is truthy
InlineOnChange(s) == ~Falsy(text) /\ TextareaOnChange(s)

\* the overlay textarea is rendered while isWritingMode
WritingOnChange(s) == isWritingMode /\ TextareaOnChange(s)

(***************************************************************************)
(* handleGrade, up to its await: the blank check, then the three setState  *)
(* calls; a new suspended call joins inflight with what its closure holds. *)
(***************************************************************************)
HandleGradeRejected ==
    /\ Trim(text) = <<>>
    /\ toastTitle' = ToastEmpty
    /\ UNCHANGED <<text, isGrading, isWritingMode, result, copied,
                   inflight, loads, copyTimers, clipboard>>

\* the accepted path without the setIsWritingMode(false) of its first lines
HandleGradeStart_KeepsMode ==
    /\ Trim(text) # <<>>
    /\ Len(inflight) < MaxInflight
    /\ isGrading' = TRUE
    /\ result' = NoResult
    /\ inflight' = Append(inflight, [isWritingMode |-> isWritingMode,
                                     reset |-> FALSE])
    /\ UNCHANGED <<text, isWritingMode, copied, loads, copyTimers,
                   toastTitle, clipboard>>

\* the accepted path without its setResult(null)
HandleGradeStart_KeepsResult ==
    /\ Trim(text) # <<>>
    /\ Len(inflight) < MaxInflight
    /\ isWritingMode' = FALSE
    /\ isGrading' = TRUE
    /\ inflight' = Append(inflight, [isWritingMode |-> isWritingMode,
                                     reset |-> FALSE])
    /\ UNCHANGED <<text, result, copied, loads, copyTimers, toastTitle, clipboard>>

HandleGradeStart ==
    /\ Trim(text) # <<>>
    /\ Len(inflight) < MaxInflight
    /\ isWritingMode' = FALSE
    /\ isGrading' = TRUE
    /\ result' = NoResult
    /\ inflight' = Append(inflight, [isWritingMode |-> isWritingMode,
                                     reset |-> FALSE])
    /\ UNCHANGED <<text, copied, loads, copyTimers, toastTitle, clipboard>>

HandleGrade == HandleGradeRejected \/ HandleGradeStart

\* the inline button: disabled={isGrading || !text}
GradeButtonClick == ~isGrading /\ ~Falsy(text) /\ HandleGrade

\* the overlay button: rendered while isWritingMode, never disabled
WritingGradeButtonClick == isWritingMode /\ HandleGrade

(***************************************************************************)
(* handleGrade after its await: the 2500 ms timers fire in the order they  *)
(* were set; the continuation sets the result and clears isGrading.        *)
(***************************************************************************)
\* the continuation without its last line, setIsGrading(false)
HandleGradeResume_KeepsGrading ==
    /\ inflight # <<>>
    /\ result' = <<ScorerResponse>>
    /\ inflight' = Tail(inflight)
    /\ UNCHANGED <<text, isGrading, isWritingMode, copied, loads, copyTimers,
                   toastTitle, clipboard>>

\* a continuation that also empties the document
HandleGradeResume_ClearsText ==
    /\ inflight # <<>>
    /\ result' = <<ScorerResponse>>
    /\ isGrading' = FALSE
    /\ inflight' = Tail(inflight)
    /\ text' = <<>>
    /\ UNCHANGED <<isWritingMode, copied, loads, copyTimers,
                   toastTitle, clipboard>>

HandleGradeResume ==
    /\ inflight # <<>>
    /\ result' = <<ScorerResponse>>
    /\ isGrading' = FALSE
    /\ inflight' = Tail(inflight)
    /\ UNCHANGED <<text, isWritingMode, copied, loads, copyTimers,
                   toastTitle, clipboard>>

(***************************************************************************)
(* handleReset, behind the button rendered while text is truthy.  Every    *)
(* call still suspended is marked as having seen a reset.                  *)
(***************************************************************************)
HandleReset ==
    /\ text' = <<>>
    /\ result' = NoResult
    /\ inflight' = [i \in DOMAIN inflight |-> [inflight[i] EXCEPT !.reset = TRUE]]
    /\ UNCHANGED <<isGrading, isWritingMode, copied, loads, copyTimers,
                   toastTitle, clipboard>>

ResetButtonClick == ~Falsy(text) /\ HandleReset

(***************************************************************************)
(* handleShare, behind the button of the result card.  writeText either    *)
(* stores the string, or its promise rejects, or navigator.clipboard is    *)
(* undefined and the handler throws before the toast and the timer.        *)
(***************************************************************************)
\* a handleShare that gives the result up when the clipboard write fails
HandleShare_DropsResultOnFailure(outcome) ==
    /\ copied' = TRUE
    /\ \/ /\ outcome = "written"
          /\ copyTimers < MaxTimers
          /\ clipboard' = ShareText(Res)
          /\ toastTitle' = ToastCopied
          /\ copyTimers' = copyTimers + 1
          /\ UNCHANGED result
       \/ /\ outcome = "rejected"
          /\ copyTimers < MaxTimers
          /\ toastTitle' = ToastCopied
          /\ copyTimers' = copyTimers + 1
          /\ result' = NoResult
          /\ UNCHANGED clipboard
       \/ /\ outcome = "throws"
          /\ result' = NoResult
          /\ UNCHANGED <<clipboard, toastTitle, copyTimers>>
    /\ UNCHANGED <<text, isGrading, isWritingMode, inflight, loads>>

HandleShare(outcome) ==
    /\ copied' = TRUE
    /\ \/ /\ outcome = "written"
          /\ copyTimers < MaxTimers
          /\ clipboard' = ShareText(Res)
          /\ toastTitle' = ToastCopied
          /\ copyTimers' = copyTimers + 1
       \/ /\ outcome = "rejected"
          /\ copyTimers < MaxTimers
          /\ toastTitle' = ToastCopied
          /\ copyTimers' = copyTimers + 1
          /\ UNCHANGED clipboard
       \/ /\ outcome = "throws"
          /\ UNCHANGED <<clipboard, toastTitle, copyTimers>>
    /\ UNCHANGED <<text, isGrading, isWritingMode, result, inflight, loads>>

ShareButtonClick(outcome) == HasResult /\ HandleShare(outcome)

CopyTimerFires ==
    /\ copyTimers > 0
    /\ copied' = FALSE
    /\ copyTimers' = copyTimers - 1
    /\ UNCHANGED <<text, isGrading, isWritingMode, result, inflight, loads,
                   toastTitle, clipboard>>

DownloadButtonClick ==
    /\ HasResult
    /\ toastTitle' = ToastUnavailable
    /\ UNCHANGED <<text, isGrading, isWritingMode, result, copied,
                   inflight, loads, copyTimers, clipboard>>

(***************************************************************************)
(* Writing mode.                                                           *)
(***************************************************************************)
\* enterWritingMode without the if (!text): the placeholder is always set
EnterWritingMode_AlwaysInit ==
    /\ text' = <<" ">>
    /\ isWritingMode' = TRUE
    /\ UNCHANGED <<isGrading, result, copied, inflight, loads, copyTimers,
                   toastTitle, clipboard>>

EnterWritingMode ==
    /\ text' = IF Falsy(text) THEN <<" ">> ELSE text
    /\ isWritingMode' = TRUE
    /\ UNCHANGED <<isGrading, result, copied, inflight, loads, copyTimers,
                   toastTitle, clipboard>>

\* "Napisz recznie", inside the dropzone (text falsy)
ManualWriteButtonClick == Falsy(text) /\ EnterWritingMode

\* the expand button, next to the inline textarea (text truthy)
ExpandButtonClick == ~Falsy(text) /\ EnterWritingMode

\* a back button that also drops a text holding nothing but the placeholder
BackButtonClick_DropsPlaceholder ==
    /\ isWritingMode
    /\ isWritingMode' = FALSE
    /\ text' = Trim(text)
    /\ UNCHANGED <<isGrading, result, copied, inflight, loads,
                   copyTimers, toastTitle, clipboard>>

\* the overlay's back button
BackButtonClick ==
    /\ isWritingMode
    /\ isWritingMode' = FALSE
    /\ UNCHANGED <<text, isGrading, result, copied, inflight, loads,
                   copyTimers, toastTitle, clipboard>>

Outcomes == {"written", "rejected", "throws"}

Next ==
    \/ OnDrop
    \/ \E c \in Texts : ReaderOnLoad(c)
    \/ \E s \in Texts : InlineOnChange(s)
    \/ \E s \in Texts : WritingOnChange(s)
    \/ GradeButtonClick
    \/ WritingGradeButtonClick
    \/ HandleGradeResume
    \/ ResetButtonClick
    \/ \E o \in Outcomes : ShareButtonClick(o)
    \/ CopyTimerFires
    \/ DownloadButtonClick
    \/ ManualWriteButtonClick
    \/ ExpandButtonClick
    \/ BackButtonClick

Spec == Init /\ [][Next]_vars

(***************************************************************************)
(* The word count over longer texts: the component with any text of up to  *)
(* WordMaxLen characters in it (two kinds of whitespace), in either view,  *)
(* and the user typing.                                                    *)
(***************************************************************************)
WordChars == {"a", " ", "\n"}
WordTexts == UNION {[1..n -> WordChars] : n \in 0..WordMaxLen}

WordInit ==
    /\ text \in WordTexts
    /\ isWritingMode \in BOOLEAN
    /\ isGrading = FALSE
    /\ result = NoResult
    /\ copied = FALSE
    /\ inflight = <<>>
    /\ loads = 0
    /\ copyTimers = 0
    /\ toastTitle = NoToast
    /\ clipboard = NoClip

WordNext ==
    \/ \E s \in WordTexts : InlineOnChange(s)
    \/ \E s \in WordTexts : WritingOnChange(s)

WordSpec == WordInit /\ [][WordNext]_vars

(***************************************************************************)
(* Submitting longer texts: the component with any text of up to           *)
(* WordMaxLen characters in it, in either view; the user types, presses    *)
(* either grade button, and the simulated scorer answers.                  *)
(***************************************************************************)
SubmitNext ==
    \/ \E s \in WordTexts : InlineOnChange(s)
    \/ \E s \in WordTexts : WritingOnChange(s)
    \/ GradeButtonClick
    \/ WritingGradeButtonClick
    \/ HandleGradeResume

SubmitSpec == WordInit /\ [][SubmitNext]_vars

(***************************************************************************)
(* The result card over any totals: a request is in flight (text typed in  *)
(* writing mode, then the overlay's grade button) and the scorer, which    *)
(* the component does not control, answers with totals of up to            *)
(* MaxTotalInput; the result can then be shared.                           *)
(***************************************************************************)
Candidate(t, m) == [MockResult EXCEPT !.totalScore = t, !.maxTotalScore = m]

\* handleGrade after its await, for a scorer answering r
HandleGradeResumeWith(r) ==
    /\ inflight # <<>>
    /\ result' = <<r>>
    /\ isGrading' = FALSE
    /\ inflight' = Tail(inflight)
    /\ UNCHANGED <<text, isWritingMode, copied, loads, copyTimers,
                   toastTitle, clipboard>>

RubricInit ==
    /\ text = <<"a">>
    /\ isGrading = TRUE
    /\ isWritingMode = FALSE
    /\ result = NoResult
    /\ copied = FALSE
    /\ inflight = <<[isWritingMode |-> TRUE, reset |-> FALSE]>>
    /\ loads = 0
    /\ copyTimers = 0
    /\ toastTitle = NoToast
    /\ clipboard = NoClip

RubricNext ==
    \/ \E m \in 1..MaxTotalInput : \E t \in 0..m :
          HandleGradeResumeWith(Candidate(t, m))
    \/ \E o \in Outcomes : ShareButtonClick(o)
    \/ CopyTimerFires

RubricSpec == RubricInit /\ [][RubricNext]_vars

\* the browser runs every timer it was given: the 2500 ms timer of a suspended
\* handleGrade fires, so its continuation is eventually run
LiveSpec == Init /\ [][Next]_vars /\ WF_vars(HandleGradeResume)

TypeOK ==
    /\ text \in Texts
    /\ isGrading \in BOOLEAN
    /\ isWritingMode \in BOOLEAN
    /\ result \in {NoResult, <<ScorerResponse>>}
    /\ copied \in BOOLEAN
    /\ Len(inflight) <= MaxInflight
    /\ loads \in 0..MaxLoads
    /\ copyTimers \in 0..MaxTimers

(***************************************************************************)
(* Vocabulary of the properties.                                           *)
(***************************************************************************)
\* a text with no character other than whitespace (the empty text included)
IsBlank(s) == \A i \in DOMAIN s : s[i] \in Whitespace

\* a step of handleGrade, from either button
SubmitStep == GradeButtonClick \/ WritingGradeButtonClick

\* a step that calls setText with a new value: typing or a completed file load
SetTextStep ==
    \E s \in Texts : InlineOnChange(s) \/ WritingOnChange(s) \/ ReaderOnLoad(s)

RECURSIVE SumOver(_, _)
SumOver(f, S) ==
    IF S = {} THEN 0
    ELSE LET x == CHOOSE y \in S : TRUE IN f[x] + SumOver(f, S \ {x})

\* the sum of the points of the eight criteria of a result
SumPoints(r) == SumOver([k \in Kinds |-> r.criteria[k].points], Kinds)

\* the sum of the maximum points of the rubric table
MaxTotal == SumOver(MaxScore, Kinds)

\* what a validated rubric result satisfies
ValidRubric(r) ==
    /\ DOMAIN r.criteria = Kinds
    /\ \A k \in Kinds : r.criteria[k].points \in 0..MaxScore[k]
    /\ \A k \in DOMAIN ErrorField : r.criteria[k][ErrorField[k]] >= 0
    /\ r.totalScore = SumPoints(r)

(***************************************************************************)
(* C1. Single-flight: in every reachable state at most one scorer request  *)
(* is outstanding; a submit issued while a request is in flight dispatches *)
(* no second request.                                                      *)
(***************************************************************************)
C1_SingleFlight == Len(inflight) <= 1

(***************************************************************************)
(* C2. Stale-response rejection: the response of a request that was in     *)
(* flight when reset happened is discarded; it does not change result.     *)
(***************************************************************************)
C2_StaleResponseDiscarded ==
    [][(/\ inflight # <<>>
        /\ Head(inflight).reset
        /\ HandleGradeResume) => result' = result]_vars

(***************************************************************************)
(* C3. A changed document invalidates its grade: every step that changes   *)
(* text while a result is present leaves no result.                        *)
(***************************************************************************)
C3_EditDiscardsResult ==
    [][(HasResult /\ text' # text) => result' = NoResult]_vars

(***************************************************************************)
(* C4. Text is frozen while a grading request is outstanding: a setText    *)
(* attempt (typing in either textarea, a file load completing) made while  *)
(* a request is in flight leaves text as it was.                           *)
(***************************************************************************)
C4_TextFrozenWhileGrading ==
    [][(inflight # <<>> /\ SetTextStep) => text' = text]_vars

(***************************************************************************)
(* C5. Whenever a result is held, its totalScore is the sum of the points  *)
(* of the eight criteria.                                                  *)
(***************************************************************************)
C5_TotalIsSumOfPoints == HasResult => Res.totalScore = SumPoints(Res)

(***************************************************************************)
(* C6. Whenever a result is held, its maxTotalScore is the sum of the      *)
(* maximum points of the scales rendered for the eight criteria (35).      *)
(***************************************************************************)
C6_MaxTotalIsSumOfScales == HasResult => Res.maxTotalScore = MaxTotal

(***************************************************************************)
(* C7. Whenever a result is held, each criterion's points lie in           *)
(* 0..maxScore of its kind, so exactly one box of its scale is selected,   *)
(* and every error count is >= 0.                                          *)
(***************************************************************************)
C7_PointsWithinScales ==
    HasResult =>
        /\ \A k \in Kinds :
              /\ Res.criteria[k].points \in 0..MaxScore[k]
              /\ Cardinality(SelectedBoxes(Res.criteria[k].points, MaxScore[k])) = 1
        /\ \A k \in DOMAIN ErrorField : Res.criteria[k][ErrorField[k]] >= 0

\* a response was applied and every one of the eight scales shows a selection
C7_Witness ==
    /\ HasResult
    /\ ~isGrading
    /\ \A k \in Kinds :
          SelectedBoxes(Res.criteria[k].points, MaxScore[k]) = {Res.criteria[k].points}

(***************************************************************************)
(* C8. A scorer response that fails validation never populates result:     *)
(* whenever a result is held, it is a valid rubric result.                 *)
(***************************************************************************)
C8_OnlyValidatedResultEnters == HasResult => ValidRubric(Res)

(***************************************************************************)
(* C9. Submit on a text that is empty after trimming is rejected with no   *)
(* state change: text, result, isGrading and isWritingMode stay as they    *)
(* were and no scorer request is dispatched.                               *)
(***************************************************************************)
C9_BlankSubmitChangesNothing ==
    [][(SubmitStep /\ IsBlank(text)) =>
          UNCHANGED <<text, result, isGrading, isWritingMode, inflight>>]_vars

\* the placeholder of writing mode was submitted from the overlay and rejected
C9_Witness ==
    /\ toastTitle = ToastEmpty
    /\ text = <<" ">>
    /\ isWritingMode
    /\ ~isGrading
    /\ inflight = <<>>

(***************************************************************************)
(* C10. An accepted submit forces writing mode off: in the state right     *)
(* after handleGrade passes the blank check, grading is in progress and    *)
(* isWritingMode is false, whatever it was when submit was invoked.        *)
(***************************************************************************)
C10_AcceptedSubmitLeavesWritingMode ==
    [][(SubmitStep /\ ~IsBlank(text)) => (isGrading' /\ ~isWritingMode')]_vars

\* the newest request was submitted with writing mode on, and the mode is off
C10_Witness ==
    /\ inflight # <<>>
    /\ inflight[Len(inflight)].isWritingMode
    /\ isGrading
    /\ ~isWritingMode

(***************************************************************************)
(* C11. Reset is idempotent and ends in Idle: after a handleReset step the *)
(* text is empty, no result is held and no grading is in progress, and a   *)
(* second handleReset would change nothing.                                *)
(***************************************************************************)
Idle == text = <<>> /\ result = NoResult /\ ~isGrading

\* handleReset's assignments leave this state as it is
ResetChangesNothing ==
    /\ text = <<>>
    /\ result = NoResult
    /\ inflight = [i \in DOMAIN inflight |-> [inflight[i] EXCEPT !.reset = TRUE]]

C11_ResetIdempotentToIdle ==
    [][ResetButtonClick => (ResetChangesNothing' /\ Idle')]_vars

(***************************************************************************)
(* C12. Every accepted submit eventually completes: while the timer of a   *)
(* suspended handleGrade is left to fire, a request in flight leads to a   *)
(* state where isGrading is false and a result is present.                 *)
(***************************************************************************)
C12_SubmitEventuallyCompletes ==
    (inflight # <<>>) ~> (~isGrading /\ HasResult)

\* the last request in flight has completed and its result is shown
C12_Witness ==
    /\ inflight = <<>>
    /\ HasResult
    /\ ~isGrading
    /\ ~IsBlank(text)

(***************************************************************************)
(* C13. While a grading request is in flight, reset stays available        *)
(* whenever text is non-empty and clears text and result at once, while    *)
(* new submits dispatch nothing and setText attempts leave text unchanged. *)
(***************************************************************************)
C13_OnlyResetDuringSubmitting ==
    /\ []((isGrading /\ text # <<>>) => ENABLED ResetButtonClick)
    /\ [][isGrading =>
            /\ ResetButtonClick => (text' = <<>> /\ result' = NoResult)
            /\ SubmitStep => inflight' = inflight
            /\ SetTextStep => text' = text]_vars

(***************************************************************************)
(* C14. For every text the displayed word count is the number of maximal   *)
(* runs of non-whitespace characters: 0 for the empty and for any          *)
(* whitespace-only text, and whitespace at either end adds no word.        *)
(***************************************************************************)
\* the positions where a maximal run of non-whitespace characters begins
RunStarts(t) ==
    {i \in 1..Len(t) : t[i] \notin Whitespace /\ (i = 1 \/ t[i - 1] \in Whitespace)}

C14_WordCountIsRuns ==
    /\ WordCount(text) = Cardinality(RunStarts(text))
    /\ IsBlank(text) => WordCount(text) = 0

\* two words with whitespace before the first and a newline among the separators
C14_Witness ==
    /\ Len(text) >= 4
    /\ text[1] \in Whitespace
    /\ \E i \in DOMAIN text : text[i] = "\n"
    /\ WordCount(text) = 2

(***************************************************************************)
(* C15. Entering writing mode on an empty document sets text to a          *)
(* non-empty placeholder that is not user content: the word count is still *)
(* 0 and the blank check of submit still rejects it; entering writing mode *)
(* on a non-empty document leaves text unchanged.                          *)
(***************************************************************************)
EnterStep == ManualWriteButtonClick \/ ExpandButtonClick

C15_PlaceholderIsNotContent ==
    [][EnterStep =>
          /\ isWritingMode'
          /\ text = <<>> => /\ text' # <<>>
                            /\ WordCount(text') = 0
                            /\ Trim(text') = <<>>
                            /\ IsBlank(text')
          /\ text # <<>> => text' = text]_vars

\* writing mode was entered on a fresh, empty document: the placeholder is there
C15_Witness ==
    /\ isWritingMode
    /\ text = <<" ">>
    /\ toastTitle = NoToast
    /\ ~HasResult
    /\ inflight = <<>>

(***************************************************************************)
(* C16. Exiting writing mode changes only isWritingMode: text, result and  *)
(* isGrading are the same before and after the overlay's back button.      *)
(***************************************************************************)
C16_ExitChangesOnlyMode ==
    [][BackButtonClick =>
          (~isWritingMode' /\ UNCHANGED <<text, result, isGrading>>)]_vars

\* the overlay was left by its back button with the text written in it kept
C16_Witness ==
    /\ ~isWritingMode
    /\ text # <<>>
    /\ toastTitle = NoToast
    /\ ~isGrading
    /\ ~HasResult
    /\ inflight = <<>>

(***************************************************************************)
(* C17. The displayed percentage of a result is                            *)
(* round(100 * totalScore / maxTotalScore), a half rounding up, for every  *)
(* totalScore in 0..maxTotalScore with maxTotalScore > 0.                  *)
(***************************************************************************)
\* n / d rounded to the nearest integer, a half going up (n >= 0, d > 0)
RoundHalfUp(n, d) == (2 * n + d) \div (2 * d)

DigitValue(c) == CASE c = "0" -> 0 [] c = "1" -> 1 [] c = "2" -> 2 [] c = "3" -> 3
                   [] c = "4" -> 4 [] c = "5" -> 5 [] c = "6" -> 6 [] c = "7" -> 7
                   [] c = "8" -> 8 [] c = "9" -> 9
DigitChars == {"0", "1", "2", "3", "4", "5", "6", "7", "8", "9"}

\* the number a decimal numeral without leading zeros writes; -1 if it is none
RECURSIVE DecimalValue(_)
DecimalValue(d) ==
    IF d = <<>> \/ (\E i \in DOMAIN d : d[i] \notin DigitChars) THEN 0 - 1
    ELSE IF Len(d) > 1 /\ d[1] = "0" THEN 0 - 1
    ELSE IF Len(d) = 1 THEN DigitValue(d[1])
    ELSE 10 * DecimalValue(SubSeq(d, 1, Len(d) - 1)) + DigitValue(d[Len(d)])

\* results with the totals of r that differ from it in another field
SameTotals(r) ==
    {[r EXCEPT !.feedback = ""],
     [r EXCEPT !.errors = <<>>],
     [r EXCEPT !.suggestions = <<>>],
     [r EXCEPT !.criteria.structure.points = 0],
     [r EXCEPT !.criteria.literaryCompetencies.points = 16],
     [r EXCEPT !.criteria.formalRequirements.reasons.cardinalError = TRUE]}

C18_ShareTextOfTotalsOnly ==
    (HasResult /\ clipboard # NoClip) =>
        /\ clipboard[1] = "Uzyskalem "
        /\ clipboard[Len(clipboard)]
              = " punktow z mojej pracy maturalnej! Sprawdz swoja na MaturaGrader."
        /\ \E i \in 2..(Len(clipboard) - 1) :
              /\ clipboard[i] = "/"
              /\ DecimalValue(SubSeq(clipboard, 2, i - 1)) = Res.totalScore
              /\ DecimalValue(SubSeq(clipboard, i + 1, Len(clipboard) - 1))
                    = Res.maxTotalScore
        /\ \A r \in SameTotals(Res) : ShareText(r) = clipboard

\* a result with two different two-digit totals was shared
C18_Witness ==
    /\ HasResult
    /\ clipboard # NoClip
    /\ Res.totalScore >= 10
    /\ Res.totalScore < Res.maxTotalScore

(***************************************************************************)
(* C19. Sharing never affects session state: handleShare, whether the      *)
(* clipboard write succeeds or fails, leaves text, result, isGrading and   *)
(* isWritingMode unchanged.                                                *)
(***************************************************************************)
ShareStep == \E o \in Outcomes : ShareButtonClick(o)

C19_ShareLeavesSession ==
    [][ShareStep =>
          (copied' /\ UNCHANGED <<text, result, isGrading, isWritingMode, inflight>>)]_vars

\* a share whose clipboard write failed has acted, and the result is still there
C19_Witness ==
    /\ copied
    /\ toastTitle = ToastCopied
    /\ clipboard = NoClip
    /\ HasResult
    /\ text # <<>>

(***************************************************************************)
(* C20. The writing-mode overlay never covers a newly produced result: at  *)
(* every step that applies a scorer response, isWritingMode is false.      *)
(***************************************************************************)
C20_NoResultUnderOverlay ==
    [][HandleGradeResume => ~isWritingMode']_vars

(***************************************************************************)
(* C21. The single-flight guard reflects the request in flight: in every   *)
(* reachable state isGrading is true if and only if a scorer request is    *)
(* outstanding; isGrading never becomes false while a request still awaits *)
(* its response.                                                           *)
(***************************************************************************)
C21_GradingIffInFlight == isGrading <=> (inflight # <<>>)

(***************************************************************************)
(* C22. In every reachable state isGrading implies that no result is held: *)
(* an accepted submit clears the previous result in the step that sets     *)
(* isGrading, and every step that sets a result clears isGrading, under    *)
(* any interleaving of submits, edits, resets and responses.               *)
(***************************************************************************)
C22_NoResultWhileGrading ==
    /\ [](isGrading => ~HasResult)
    /\ [][((SubmitStep /\ isGrading') => ~HasResult')
           /\ ((HasResult' /\ result' # result) => ~isGrading')]_vars

\* a result had been produced and shared, and a new submit is now in progress
C22_Witness ==
    /\ clipboard # NoClip
    /\ isGrading
    /\ ~HasResult
    /\ ~IsBlank(text)
    /\ Len(inflight) = 1

(***************************************************************************)
(* C23. The blank check of submit and the word count agree for every text: *)
(* handleGrade rejects the text as an empty document exactly when the      *)
(* displayed word count of the text is 0.                                  *)
(***************************************************************************)
\* what the step of a rejected handleGrade looks like: the toast, no request
RejectedStep == toastTitle' = ToastEmpty /\ inflight' = inflight

C23_BlankCheckAgreesWithWordCount ==
    /\ []((Trim(text) = <<>>) <=> (WordCount(text) = 0))
    /\ [][SubmitStep => (RejectedStep <=> (WordCount(text) = 0))]_vars

\* a text of spaces and a newline, several characters long, was submitted from
\* the overlay and rejected
C23_Witness ==
    /\ toastTitle = ToastEmpty
    /\ Len(text) >= 3
    /\ \E i \in DOMAIN text : text[i] = "\n"
    /\ \E i \in DOMAIN text : text[i] = " "
    /\ WordCount(text) = 0
    /\ isWritingMode

(***************************************************************************)
(* C24. Submit never modifies the document: in both outcomes of            *)
(* handleGrade, rejected as blank or accepted and later completed, text    *)
(* after the submit step and after the response step equals text           *)
(* immediately before that step.                                           *)
(***************************************************************************)
C24_SubmitKeepsText ==
    [][(SubmitStep \/ HandleGradeResume) => text' = text]_vars

\* a blank submit was rejected, then a written text was submitted and graded:
\* the text is still there next to its result
C24_Witness ==
    /\ toastTitle = ToastEmpty
    /\ HasResult
    /\ ~isGrading
    /\ text = <<"a">>
    /\ inflight = <<>>

====
